---- MODULE Spec2Model ----
(***************************************************************************)
(* A model of export_rave.py: the ScriptedRAVE wrapper classes (latent     *)
(* size selection, latent post-/pre-processing, the stereo channel         *)
(* adapter) and the module-level export script.                            *)
(*                                                                         *)
(* Fidelity values and thresholds are real numbers of [0,1] in the code;   *)
(* they are written here in hundredths (0.95 is 95), and compared exactly. *)
(* Tensors are sequences: a batch is a sequence of rows, a row a sequence  *)
(* of channel values of one time frame (every latent transform of the      *)
(* file is a 1-tap operation that acts on each frame on its own).          *)
(***************************************************************************)
EXTENDS Integers, Sequences, FiniteSets, TLC

VARIABLES
    pc,             \* position of the export script (src lines 141-191)
    args,           \* class args after parse_args()
    checkpoint,     \* result of rave.core.search_for_run
    pretrained,     \* the rave.RAVE() instance, None before it is built
    script_class,   \* the class picked by the encoder-type dispatch
    scripted_rave,  \* the ScriptedRAVE instance, None before it is built
    files,          \* artifact files written by torch.jit.save
    error,          \* the exception that ended the run, "none" otherwise
    steps,          \* the pipeline steps completed so far, in order
    warnings,       \* messages printed by the run
    checked,        \* whether check_scripted_model was invoked
    probe,          \* two constructions of one model (selection spec)
    net,            \* a constructed ScriptedRAVE (codec spec)
    call            \* the frame of the call in progress on net

exportVars == <<pc, args, checkpoint, pretrained, script_class, scripted_rave,
                files, error, steps, warnings, checked>>
codecVars == <<net, call>>
vars == <<pc, args, checkpoint, pretrained, script_class, scripted_rave,
          files, error, steps, warnings, checked, probe, net, call>>

\* Python's None where a string is expected
None == "None"

\* Python's None where an object is expected
Null == [none |-> TRUE]

-----------------------------------------------------------------------------
(* Bounds of the model *)

\* largest full latent size of the selection and export specifications
MaxFull == 6
\* largest full latent size of the codec specification
CodecMaxFull == 4
\* largest number of residual quantizer stages
MaxQuantizers == 2
\* number of entries of each codebook (quantizer.n_codes)
NCodes == 3

\* fidelity values a curve is built from, in hundredths
FidelityLevels == {50, 80, 96, 99}
\* values of args.FIDELITY, in hundredths
Thresholds == {0, 50, 95, 99, 100}
\* total stride of the encoder behind the pqmf (samples per latent frame)
Hops == {1024, 2048}

-----------------------------------------------------------------------------
(* Program constants *)

\* args.FIDELITY = .95
DefaultFidelity == 95
\* x = torch.zeros(1, 1, 2**14)
ProbeLen == 16384

-----------------------------------------------------------------------------
(* Arithmetic helpers *)

Max(a, b) == IF a >= b THEN a ELSE b

Min(a, b) == IF a <= b THEN a ELSE b

RECURSIVE Pow2(_)
\* 2**k
Pow2(k) == IF k <= 0 THEN 1 ELSE 2 * Pow2(k - 1)

RECURSIVE CeilLog2From(_, _)
CeilLog2From(n, k) == IF Pow2(k) >= n THEN k ELSE CeilLog2From(n, k + 1)

\* math.ceil(math.log2(n)) for an integer n >= 1
CeilLog2(n) == CeilLog2From(n, 0)

RECURSIVE SumTo(_, _)
\* f[1] + ... + f[n]
SumTo(f, n) == IF n = 0 THEN 0 ELSE f[n] + SumTo(f, n - 1)

-----------------------------------------------------------------------------
(* Latent size selection, ScriptedRAVE.__init__ lines 41-48 *)

\* the boolean mask  pretrained.fidelity.numpy() > args.FIDELITY
ExceedsMask(fidelity, threshold) ==
    [i \in 1..Len(fidelity) |-> fidelity[i] > threshold]

\* np.argmax of a boolean mask: the 0-based index of its first True, and 0
\* when no entry is True (the first of the equal maxima)
ArgMax(mask) ==
    IF \E i \in 1..Len(mask) : mask[i]
    THEN (CHOOSE i \in 1..Len(mask) :
              mask[i] /\ \A j \in 1..(i - 1) : ~mask[j]) - 1
    ELSE 0

\* the variational branch without the rounding to a power of two
SelectLatentSizeNoRound(fidelity, threshold) ==
    Max(ArgMax(ExceedsMask(fidelity, threshold)), 1)

\* latent_size = max(np.argmax(fidelity > FIDELITY), 1)
\* latent_size = 2**math.ceil(math.log2(latent_size))
SelectLatentSize(fidelity, threshold) ==
    Pow2(CeilLog2(Max(ArgMax(ExceedsMask(fidelity, threshold)), 1)))

-----------------------------------------------------------------------------
(* Tensor helpers *)

\* F.conv1d(z, W.unsqueeze(-1)) on one frame: out[o] = sum_i W[o][i] * z[i]
Conv1d(z, W) ==
    [o \in 1..Len(W) |->
        SumTo([i \in 1..Len(z) |-> W[o][i] * z[i]], Len(z))]

\* W.T
Transpose(W) ==
    [i \in 1..Len(W) |-> [o \in 1..Len(W) |-> W[o][i]]]

\* z + v.unsqueeze(-1) on one frame
AddVec(z, v) == [i \in 1..Len(z) |-> z[i] + v[i]]

\* z - v.unsqueeze(-1) on one frame
SubVec(z, v) == [i \in 1..Len(z) |-> z[i] - v[i]]

\* z[:, :n] on one row (a slice past the end keeps what there is)
Truncate(z, n) == SubSeq(z, 1, Min(n, Len(z)))

-----------------------------------------------------------------------------
(* ScriptedRAVE.__init__ *)

\* z = self.encoder(self.pqmf(x)) on the probe: the number of latent frames
EncoderFrames(p, samples) == samples \div p.hop

\* ratio_encode = x.shape[-1] // z.shape[-1]
RatioEncode(p) == ProbeLen \div EncoderFrames(p, ProbeLen)

\* torch.tensor([1, 1, self.latent_size, ratio_encode])
EncodeParams(latent_size, ratio) == <<1, 1, latent_size, ratio>>

\* the decode_params of a build that ignores the stereo flag
DecodeParamsMono(latent_size, ratio, stereo) == <<latent_size, ratio, 1, 1>>

\* torch.tensor([self.latent_size, ratio_encode, 2 if stereo else 1, 1])
DecodeParams(latent_size, ratio, stereo) ==
    <<latent_size, ratio, IF stereo THEN 2 ELSE 1, 1>>

\* torch.tensor([1, 1, 2 if stereo else 1, 1])
ForwardParams(stereo) == <<1, 1, IF stereo THEN 2 ELSE 1, 1>>

\* self.latent_size: by the encoder's type; no attribute is set for another
\* encoder type (0 stands for the missing attribute)
LatentSizeOf(p, threshold) ==
    IF p.encoder = "variational"
    THEN SelectLatentSize(p.fidelity, threshold)
    ELSE IF p.encoder = "discrete" THEN p.num_quantizers ELSE 0

\* self.quantizer = SimpleQuantizer([l._codebook.embed for l in rvq.layers])
QuantizerOf(p) ==
    IF p.encoder = "discrete"
    THEN [n_codes |-> NCodes, stages |-> p.num_quantizers]
    ELSE Null

\* script_class(pretrained=pretrained, stereo=args.STEREO), with args.FIDELITY
ScriptedInit(class, p, stereo, threshold) ==
    [class            |-> class,
     stereo           |-> stereo,
     hop              |-> p.hop,
     full_latent_size |-> p.latent_size,
     latent_pca       |-> p.latent_pca,
     latent_mean      |-> p.latent_mean,
     fidelity         |-> p.fidelity,
     latent_size      |-> LatentSizeOf(p, threshold),
     quantizer        |-> QuantizerOf(p),
     encode_params    |-> EncodeParams(LatentSizeOf(p, threshold), RatioEncode(p)),
     decode_params    |-> DecodeParams(LatentSizeOf(p, threshold), RatioEncode(p),
                                       stereo),
     forward_params   |-> ForwardParams(stereo)]

-----------------------------------------------------------------------------
(* VariationalScriptedRAVE *)

\* self.encoder.reparametrize(z): the sample and the divergence term; the
\* sample is the distribution's representative value
Reparametrize(raw) == <<raw.mean, "kl">>

\* post_process_latent on one row
PostProcessVariational(m, raw) ==
    Truncate(Conv1d(SubVec(Reparametrize(raw)[1], m.latent_mean), m.latent_pca),
             m.latent_size)

\* the shape of the noise tensor: full_latent_size - latent_size channels
NoiseChannels(m) == m.full_latent_size - m.latent_size

\* pre_process_latent with the projection applied untransposed
PreProcessVariationalNoT(m, z, noise) ==
    [r \in 1..Len(z) |->
        AddVec(Conv1d(z[r] \o noise[r], m.latent_pca), m.latent_mean)]

\* pre_process_latent on a batch; noise is the value torch.randn returned,
\* one row of NoiseChannels(m) values for every row of the batch
PreProcessVariational(m, z, noise) ==
    [r \in 1..Len(z) |->
        AddVec(Conv1d(z[r] \o noise[r], Transpose(m.latent_pca)), m.latent_mean)]

-----------------------------------------------------------------------------
(* rave.scripted_vq.SimpleQuantizer *)

\* the step of stage s (1-based) of the codebooks used here
CodeStep(s) == IF s = 1 THEN 3 ELSE 1

\* row k (0-based) of codebook s: an entry of dimension 2
Embed(s, k) == <<(k - 1) * CodeStep(s), k - 1>>

\* squared Euclidean distance
Dist2(a, b) == SumTo([i \in 1..Len(a) |-> (a[i] - b[i]) * (a[i] - b[i])], Len(a))

\* index of the entry of codebook s nearest to v (the first of the nearest)
Nearest(q, s, v) ==
    CHOOSE k \in 0..(q.n_codes - 1) :
        /\ \A j \in 0..(q.n_codes - 1) : Dist2(v, Embed(s, k)) <= Dist2(v, Embed(s, j))
        /\ \A j \in 0..(k - 1) : Dist2(v, Embed(s, j)) > Dist2(v, Embed(s, k))

RECURSIVE ResidualQuantizeFrom(_, _, _)
ResidualQuantizeFrom(q, s, residual) ==
    IF s > q.stages THEN <<>>
    ELSE <<Nearest(q, s, residual)>> \o
         ResidualQuantizeFrom(q, s + 1,
                              SubVec(residual, Embed(s, Nearest(q, s, residual))))

\* residual_quantize: one index per stage, each stage on the remainder
ResidualQuantize(q, v) == ResidualQuantizeFrom(q, 1, v)

RECURSIVE DequantizeSum(_, _)
DequantizeSum(idx, s) ==
    IF s = 0 THEN <<0, 0>> ELSE AddVec(DequantizeSum(idx, s - 1), Embed(s, idx[s]))

\* residual_dequantize: the sum of the indexed rows of every stage; an index
\* outside a codebook is an error of the lookup
ResidualDequantize(q, idx) ==
    IF \E s \in 1..Len(idx) : idx[s] < 0 \/ idx[s] > q.n_codes - 1
    THEN [error |-> "IndexError", value |-> <<>>]
    ELSE [error |-> "none", value |-> DequantizeSum(idx, Len(idx))]

-----------------------------------------------------------------------------
(* DiscreteScriptedRAVE *)

\* a clamp whose upper limit is n_codes
ClampIndexOffByOne(m, i) == Min(Max(i, 0), m.quantizer.n_codes)

\* torch.clamp(z, 0, self.quantizer.n_codes - 1).long() on one index
ClampIndex(m, i) == Min(Max(i, 0), m.quantizer.n_codes - 1)

\* the clamp on a batch of index rows
ClampBatch(m, z) == [r \in 1..Len(z) |-> [s \in 1..Len(z[r]) |-> ClampIndex(m, z[r][s])]]

\* self.quantizer.residual_dequantize on a batch
DequantizeBatch(m, z) == [r \in 1..Len(z) |-> ResidualDequantize(m.quantizer, z[r])]

\* self.encoder.add_noise_to_vector: noise added to every element
AddNoiseToVector(z, noise) == [r \in 1..Len(z) |-> AddVec(z[r], noise[r])]

\* post_process_latent on one row
PostProcessDiscrete(m, raw) == ResidualQuantize(m.quantizer, raw)

-----------------------------------------------------------------------------
(* The trained models the specifications draw from *)

\* monotonically non-decreasing fidelity curves of length n
Curves(n) ==
    {c \in [1..n -> FidelityLevels] : \A i \in 1..n : \A j \in i..n : c[i] <= c[j]}

\* the curves whose first k entries are 80 and whose other entries are 96
RampCurves(n) ==
    {[i \in 1..n |-> IF i <= k THEN 80 ELSE 96] : k \in 0..n}

Identity(n) == [o \in 1..n |-> [i \in 1..n |-> IF i = o THEN 1 ELSE 0]]

\* the cyclic permutation matrix: orthonormal, not symmetric for n > 2
Shift(n) == [o \in 1..n |-> [i \in 1..n |-> IF i = (o % n) + 1 THEN 1 ELSE 0]]

\* the cyclic permutation with its signs flipped
NegShift(n) == [o \in 1..n |-> [i \in 1..n |-> IF i = (o % n) + 1 THEN -1 ELSE 0]]

\* orthonormal projection matrices of size n
PcaChoices(n) == {Identity(n), Shift(n), NegShift(n)}

\* mean vectors of size n
MeanChoices(n) == {[i \in 1..n |-> 0], [i \in 1..n |-> i]}

\* rave.RAVE(): what the export reads of the trained model
Pretrained(encoder, n, curve, pca, mean, nq, hop) ==
    [encoder        |-> encoder,
     latent_size    |-> n,
     fidelity       |-> curve,
     latent_pca     |-> pca,
     latent_mean    |-> mean,
     num_quantizers |-> nq,
     hop            |-> hop,
     loaded         |-> FALSE,
     warmed         |-> FALSE,
     weight_norm    |-> TRUE]

\* variational models with every curve up to MaxFull entries
SelectModels ==
    UNION {{Pretrained("variational", n, c, Identity(n), [i \in 1..n |-> 0], 0, 2048) :
                c \in Curves(n)} : n \in 1..MaxFull}

\* the models an export run may build from its configuration file
ExportModels ==
    UNION {{Pretrained("variational", n, c, Identity(n), [i \in 1..n |-> 0], 0, h) :
                c \in Curves(n), h \in Hops} : n \in 1..MaxFull}
    \cup UNION {{Pretrained("discrete", n, [i \in 1..n |-> 99], Identity(n),
                            [i \in 1..n |-> 0], nq, h) :
                nq \in 1..MaxQuantizers, h \in Hops} : n \in 1..MaxFull}
    \cup {Pretrained("other", 1, <<99>>, Identity(1), <<0>>, 0, h) : h \in Hops}

-----------------------------------------------------------------------------
(* Selection specification: ScriptedRAVE.__init__ applied to one           *)
(* variational model under two thresholds                                  *)

SelectInit ==
    /\ probe \in {[phase |-> "input", p |-> p, t1 |-> t1, t2 |-> t2,
                   m1 |-> Null, m2 |-> Null] :
                      p \in SelectModels, t1 \in Thresholds, t2 \in Thresholds}
    /\ pc = "idle"
    /\ args = Null
    /\ checkpoint = None
    /\ pretrained = Null
    /\ script_class = None
    /\ scripted_rave = Null
    /\ files = {}
    /\ error = "none"
    /\ steps = <<>>
    /\ warnings = <<>>
    /\ checked = FALSE
    /\ net = Null
    /\ call = Null

\* both constructions, from the same model
Construct ==
    /\ probe.phase = "input"
    /\ probe' = [probe EXCEPT
                    !.phase = "built",
                    !.m1 = ScriptedInit("VariationalScriptedRAVE", probe.p, FALSE,
                                        probe.t1),
                    !.m2 = ScriptedInit("VariationalScriptedRAVE", probe.p, FALSE,
                                        probe.t2)]
    /\ UNCHANGED <<exportVars, codecVars>>

SelectNext == Construct

SelectSpec == SelectInit /\ [][SelectNext]_vars

-----------------------------------------------------------------------------
(* Export script, lines 141-191 *)

Init ==
    /\ pc = "parse_args"
    /\ args \in [NAME : {None, "model"}, FIDELITY : Thresholds, STEREO : BOOLEAN]
    /\ checkpoint = None
    /\ pretrained = Null
    /\ script_class = None
    /\ scripted_rave = Null
    /\ files = {}
    /\ error = "none"
    /\ steps = <<>>
    /\ warnings = <<>>
    /\ checked = FALSE
    /\ probe = Null
    /\ net = Null
    /\ call = Null

\* args.parse_args(); assert args.NAME is not None
ParseArgs ==
    /\ pc = "parse_args"
    /\ IF args.NAME = None
       THEN /\ error' = "AssertionError"
            /\ pc' = "done"
       ELSE /\ error' = error
            /\ pc' = "search"
    /\ UNCHANGED <<args, checkpoint, pretrained, script_class, scripted_rave, files,
                   steps, warnings, checked, probe, codecVars>>

\* checkpoint = rave.core.search_for_run(root)
SearchForRun ==
    /\ pc = "search"
    /\ \E c \in {None, "runs/model/rave/best.ckpt"} : checkpoint' = c
    /\ pc' = "build"
    /\ UNCHANGED <<args, pretrained, script_class, scripted_rave, files, error,
                   steps, warnings, checked, probe, codecVars>>

\* pretrained = rave.RAVE(); load_state_dict or the printed warning; eval()
BuildRave ==
    /\ pc = "build"
    /\ \E p \in ExportModels :
          pretrained' = [p EXCEPT !.loaded = (checkpoint # None)]
    /\ warnings' = IF checkpoint = None
                   THEN Append(warnings,
                               "No checkpoint found, RAVE will remain randomly initialized")
                   ELSE warnings
    /\ steps' = Append(steps, "Loaded")
    /\ pc' = "dispatch"
    /\ UNCHANGED <<args, checkpoint, script_class, scripted_rave, files, error,
                   checked, probe, codecVars>>

\* a dispatch whose else branch falls back to the variational class
SelectClassNoRaise ==
    /\ pc = "dispatch"
    /\ script_class' = IF pretrained.encoder = "discrete"
                       THEN "DiscreteScriptedRAVE"
                       ELSE "VariationalScriptedRAVE"
    /\ steps' = Append(steps, "StrategyBound")
    /\ pc' = "warmup"
    /\ UNCHANGED <<args, checkpoint, pretrained, scripted_rave, files, error,
                   warnings, checked, probe, codecVars>>

\* a dispatch that goes on to the scripting, past the warm-up and the
\* weight-norm removal
SelectClassSkip ==
    /\ pc = "dispatch"
    /\ IF pretrained.encoder \in {"variational", "discrete"}
       THEN /\ script_class' = IF pretrained.encoder = "variational"
                               THEN "VariationalScriptedRAVE"
                               ELSE "DiscreteScriptedRAVE"
            /\ steps' = Append(steps, "StrategyBound")
            /\ error' = error
            /\ pc' = "script"
       ELSE /\ error' = "ValueError"
            /\ pc' = "done"
            /\ UNCHANGED <<script_class, steps>>
    /\ UNCHANGED <<args, checkpoint, pretrained, scripted_rave, files,
                   warnings, checked, probe, codecVars>>

\* the isinstance dispatch of lines 159-167
SelectClass ==
    /\ pc = "dispatch"
    /\ IF pretrained.encoder \in {"variational", "discrete"}
       THEN /\ script_class' = IF pretrained.encoder = "variational"
                               THEN "VariationalScriptedRAVE"
                               ELSE "DiscreteScriptedRAVE"
            /\ steps' = Append(steps, "StrategyBound")
            /\ error' = error
            /\ pc' = "warmup"
       ELSE /\ error' = "ValueError"
            /\ pc' = "done"
            /\ UNCHANGED <<script_class, steps>>
    /\ UNCHANGED <<args, checkpoint, pretrained, scripted_rave, files,
                   warnings, checked, probe, codecVars>>

\* x = torch.zeros(1, 1, 2**14); pretrained(x)
WarmupPass ==
    /\ pc = "warmup"
    /\ pretrained' = [pretrained EXCEPT !.warmed = TRUE]
    /\ steps' = Append(steps, "WarmedUp")
    /\ pc' = "weightnorm"
    /\ UNCHANGED <<args, checkpoint, script_class, scripted_rave, files, error,
                   warnings, checked, probe, codecVars>>

\* nn.utils.remove_weight_norm on every module that has weight_g
RemoveWeightNorm ==
    /\ pc = "weightnorm"
    /\ pretrained' = [pretrained EXCEPT !.weight_norm = FALSE]
    /\ steps' = Append(steps, "Normalized")
    /\ pc' = "script"
    /\ UNCHANGED <<args, checkpoint, script_class, scripted_rave, files, error,
                   warnings, checked, probe, codecVars>>

\* scripted_rave = script_class(...); scripted_rave = torch.jit.script(...)
ScriptModel ==
    /\ pc = "script"
    /\ scripted_rave' = ScriptedInit(script_class, pretrained, args.STEREO,
                                     args.FIDELITY)
    /\ pc' = "save"
    /\ UNCHANGED <<args, checkpoint, pretrained, script_class, files, error, steps,
                   warnings, checked, probe, codecVars>>

\* torch.jit.save(scripted_rave, f"{args.NAME}.ts")
SaveModel ==
    /\ pc = "save"
    /\ files' = files \cup {<<args.NAME, ".ts">>}
    /\ steps' = Append(steps, "Packaged")
    /\ pc' = "check"
    /\ UNCHANGED <<args, checkpoint, pretrained, script_class, scripted_rave, error,
                   warnings, checked, probe, codecVars>>

\* rave.core.check_scripted_model(scripted_rave): it passes or it raises
CheckModel ==
    /\ pc = "check"
    /\ checked' = TRUE
    /\ \E passed \in BOOLEAN :
          IF passed
          THEN /\ steps' = Append(steps, "Validated")
               /\ error' = error
          ELSE /\ steps' = steps
               /\ error' = "ValidationError"
    /\ pc' = "done"
    /\ UNCHANGED <<args, checkpoint, pretrained, script_class, scripted_rave, files,
                   warnings, probe, codecVars>>

Next ==
    \/ ParseArgs
    \/ SearchForRun
    \/ BuildRave
    \/ SelectClass
    \/ WarmupPass
    \/ RemoveWeightNorm
    \/ ScriptModel
    \/ SaveModel
    \/ CheckModel

Spec == Init /\ [][Next]_vars

-----------------------------------------------------------------------------
(* Codec specification: calls of encode, decode and forward on a           *)
(* constructed ScriptedRAVE                                                *)

\* values torch.randn may return for one element
NoiseValues == {-1, 1}

\* numbers of latent frames of a call
FrameCounts == {1, 2}

\* args.FIDELITY of the discrete builds
CodecThresholds == {DefaultFidelity, 99}

\* the class the dispatch of lines 159-164 picks for a supported encoder
ClassOf(p) ==
    IF p.encoder = "variational" THEN "VariationalScriptedRAVE"
    ELSE "DiscreteScriptedRAVE"

\* the trained models of the codec specification
CodecModels ==
    UNION {{Pretrained("variational", n, c, w, mu, 0, h) :
                c \in RampCurves(n), w \in PcaChoices(n), mu \in MeanChoices(n),
                h \in Hops} : n \in 1..CodecMaxFull}
    \cup {Pretrained("discrete", 2, <<80, 96>>, Identity(2), <<0, 0>>, nq, h) :
                nq \in 1..MaxQuantizers, h \in Hops}

\* the builds: a trained model and the arguments of the export
CodecBuilds ==
    {[p |-> p, a |-> [NAME |-> "model", FIDELITY |-> DefaultFidelity, STEREO |-> st]] :
        p \in {q \in CodecModels : q.encoder = "variational"}, st \in BOOLEAN}
    \cup {[p |-> p, a |-> [NAME |-> "model", FIDELITY |-> t, STEREO |-> st]] :
        p \in {q \in CodecModels : q.encoder = "discrete"}, st \in BOOLEAN,
        t \in CodecThresholds}

\* encoder outputs of a call: one row, the batch of the host
RawInputs(m) ==
    IF m.class = "VariationalScriptedRAVE"
    THEN {<<[mean |-> [i \in 1..m.full_latent_size |-> a * i + b],
             scale |-> [i \in 1..m.full_latent_size |-> 1]]>> :
              a \in {0, 1}, b \in {-1, 0}}
    ELSE {<<v>> : v \in {<<0, 0>>, <<2, 1>>, <<-4, -1>>, <<3, 0>>}}

\* latents handed to decode: one row of latent_size channels
LatentInputs(m) ==
    IF m.class = "VariationalScriptedRAVE"
    THEN {<<[i \in 1..m.latent_size |-> a * i + b]>> : a \in {0, 1}, b \in {0, 2}}
    ELSE {<<idx>> : idx \in [1..m.latent_size -> (-1)..m.quantizer.n_codes]}

\* the values the random generator may return during a decode of rows rows
NoiseInputs(m, rows) ==
    IF m.class = "VariationalScriptedRAVE"
    THEN [1..rows -> [1..Max(NoiseChannels(m), 0) -> NoiseValues]]
    ELSE [1..rows -> [1..2 -> NoiseValues]]

\* the frame of a call
Frame(op, raw, latent, frames) ==
    [op |-> op, raw |-> raw, latent |-> latent, frames |-> frames,
     clamped |-> Null, dequantized |-> Null, pre |-> Null, y |-> Null,
     error |-> "none"]

\* self.decoder(z) followed by self.pqmf.inverse(y), on one row: one channel
\* of frames * hop samples, a function of the row
Synthesize(m, row, frames) == [samples |-> frames * m.hop, of |-> row]

\* torch.cat([z, z], 0) when self.stereo
Duplicate(m, z) == IF m.stereo THEN z \o z ELSE z

\* torch.cat(y.chunk(2, 0), 1) when self.stereo: the two halves of the batch
\* become the two channels
MergeChannels(m, y) ==
    IF m.stereo
    THEN [b \in 1..(Len(y) \div 2) |-> <<y[b], y[(Len(y) \div 2) + b]>>]
    ELSE [b \in 1..Len(y) |-> <<y[b]>>]

\* ScriptedRAVE.encode: post_process_latent on the encoder's output
EncodeLatent(m, raw) ==
    [r \in 1..Len(raw) |->
        IF m.class = "VariationalScriptedRAVE"
        THEN PostProcessVariational(m, raw[r])
        ELSE PostProcessDiscrete(m, raw[r])]

\* ScriptedRAVE.decode, into the frame f
DecodeFrame(m, f, noise) ==
    IF m.class = "VariationalScriptedRAVE"
    THEN IF NoiseChannels(m) < 0
         THEN [f EXCEPT !.error = "RuntimeError"]
         ELSE [f EXCEPT
                 !.pre = PreProcessVariational(m, Duplicate(m, f.latent), noise),
                 !.y = MergeChannels(m,
                         [r \in 1..Len(Duplicate(m, f.latent)) |->
                            Synthesize(m,
                                PreProcessVariational(m, Duplicate(m, f.latent),
                                                      noise)[r],
                                f.frames)])]
    ELSE LET clamped == ClampBatch(m, Duplicate(m, f.latent))
             looked == DequantizeBatch(m, clamped)
             deq == [r \in 1..Len(looked) |-> looked[r].value]
             pre == AddNoiseToVector(deq, noise)
         IN  IF \E r \in 1..Len(looked) : looked[r].error # "none"
             THEN [f EXCEPT !.clamped = clamped, !.error = "IndexError"]
             ELSE [f EXCEPT
                     !.clamped = clamped,
                     !.dequantized = deq,
                     !.pre = pre,
                     !.y = MergeChannels(m,
                             [r \in 1..Len(pre) |-> Synthesize(m, pre[r], f.frames)])]

\* the state after scripted_rave = script_class(pretrained, args.STEREO)
CodecInit ==
    /\ \E b \in CodecBuilds :
          /\ args = b.a
          /\ pretrained = b.p
          /\ net = ScriptedInit(ClassOf(b.p), b.p, b.a.STEREO, b.a.FIDELITY)
    /\ call = Null
    /\ pc = "idle"
    /\ checkpoint = None
    /\ script_class = None
    /\ scripted_rave = Null
    /\ files = {}
    /\ error = "none"
    /\ steps = <<>>
    /\ warnings = <<>>
    /\ checked = FALSE
    /\ probe = Null

\* a call of encode
Encode ==
    /\ call = Null
    /\ \E raw \in RawInputs(net), n \in FrameCounts :
          call' = Frame("encode", raw, EncodeLatent(net, raw), n)
    /\ UNCHANGED <<net, exportVars, probe>>

\* a call of decode
Decode ==
    /\ call = Null
    /\ \E z \in LatentInputs(net), n \in FrameCounts :
          \E noise \in NoiseInputs(net, Len(Duplicate(net, z))) :
              call' = DecodeFrame(net, Frame("decode", Null, z, n), noise)
    /\ UNCHANGED <<net, exportVars, probe>>

\* a call of forward: self.decode(self.encode(x))
Forward ==
    /\ call = Null
    /\ \E raw \in RawInputs(net), n \in FrameCounts :
          \E noise \in NoiseInputs(net, Len(Duplicate(net, raw))) :
              call' = DecodeFrame(net,
                                  Frame("forward", raw, EncodeLatent(net, raw), n),
                                  noise)
    /\ UNCHANGED <<net, exportVars, probe>>

\* the call returns to the host
Return ==
    /\ call # Null
    /\ call' = Null
    /\ UNCHANGED <<net, exportVars, probe>>

CodecNext ==
    \/ Encode
    \/ Decode
    \/ Forward
    \/ Return

CodecSpec == CodecInit /\ [][CodecNext]_vars

-----------------------------------------------------------------------------
(* Properties of the latent size selection (SelectSpec) *)

RECURSIVE IsPow2(_)
\* n is a power of two
IsPow2(n) == n = 1 \/ (n > 1 /\ n % 2 = 0 /\ IsPow2(n \div 2))

\* the smallest power of two that is at least n
NextPow2(n) ==
    CHOOSE q \in 1..(2 * n) :
        IsPow2(q) /\ q >= n /\ \A r \in 1..(q - 1) : ~(IsPow2(r) /\ r >= n)

\* some entry of the curve exceeds the threshold
SomeExceeds(fidelity, threshold) == \E i \in 1..Len(fidelity) : fidelity[i] > threshold

\* the 0-based index of the first entry that exceeds the threshold is k
FirstExceedsAt(fidelity, threshold, k) ==
    /\ k + 1 \in 1..Len(fidelity)
    /\ fidelity[k + 1] > threshold
    /\ \A j \in 1..k : ~(fidelity[j] > threshold)

\* C1: with threshold 0.95 and the fidelity curve [0.5, 0.8, 0.96, 0.99] the
\* selected latent size is 4.
C1_SelectsFour ==
    (probe.phase = "built" /\ probe.p.fidelity = <<50, 80, 96, 99>> /\ probe.t1 = 95)
        => probe.m1.latent_size = 4

\* C2: for every non-decreasing curve and thresholds t1 <= t2, the size
\* selected for t1 is at most the size selected for t2, thresholds that no
\* entry exceeds included.
C2_MonotoneInThreshold ==
    (probe.phase = "built" /\ probe.t1 <= probe.t2)
        => probe.m1.latent_size <= probe.m2.latent_size

\* C3: the selected latent size lies between 1 and the full latent size, so
\* the number of noise channels appended at decode time is never negative.
C3_KeptWithinFull ==
    probe.phase = "built"
        => /\ 1 <= probe.m1.latent_size
           /\ probe.m1.latent_size <= probe.m1.full_latent_size
           /\ NoiseChannels(probe.m1) >= 0

\* C4: for every threshold and every non-decreasing curve of length D >= 1
\* the selection returns a power of two in [1, nextPow2(D)], and returns 1
\* when no entry of the curve exceeds the threshold.
C4_PowerOfTwoInRange ==
    probe.phase = "built"
        => /\ probe.m1.latent_size \in Nat
           /\ IsPow2(probe.m1.latent_size)
           /\ 1 <= probe.m1.latent_size
           /\ probe.m1.latent_size <= NextPow2(Len(probe.p.fidelity))
           /\ (~SomeExceeds(probe.p.fidelity, probe.t1) => probe.m1.latent_size = 1)

\* a construction where the first entry above the threshold has index 3 and
\* the size was rounded up to 4
C4_Witness ==
    /\ probe.phase = "built"
    /\ FirstExceedsAt(probe.p.fidelity, probe.t1, 3)
    /\ probe.m1.latent_size = 4

-----------------------------------------------------------------------------
(* Properties of the export script (Spec) *)

\* s is a prefix of t
IsPrefix(s, t) == Len(s) <= Len(t) /\ SubSeq(t, 1, Len(s)) = s

ClaimedOrder ==
    <<"Loaded", "WarmedUp", "Normalized", "StrategyBound", "Packaged", "Validated">>

ActualOrder ==
    <<"Loaded", "StrategyBound", "WarmedUp", "Normalized", "Packaged", "Validated">>

\* C7 as stated: the run passes through Loaded, WarmedUp, Normalized,
\* StrategyBound, Packaged, Validated in exactly this order, the encoder-type
\* dispatch after the warm-up and the weight-norm removal.
C7_ClaimedOrder == IsPrefix(steps, ClaimedOrder)

\* C7 as amended: the run passes through Loaded, StrategyBound, WarmedUp,
\* Normalized, Packaged, Validated in exactly this order, no step skipped,
\* repeated or revisited; a run that ends without an error has passed through
\* all six, and the artifact is saved before the validation call.
C7_ActualOrder ==
    /\ IsPrefix(steps, ActualOrder)
    /\ (pc = "done" /\ error = "none") => steps = ActualOrder
    /\ checked => files # {}

\* a run that ended without an error
C7_Witness == pc = "done" /\ error = "none" /\ Len(steps) = 6

\* C8: an encoder that is neither variational nor discrete ends the run with
\* the unsupported-type error, no artifact file written and no validation
\* run; a missing checkpoint does not end the run, which prints its warning
\* and still writes the artifact and runs the validation.
C8_UnsupportedFatalCheckpointNot ==
    /\ (pretrained # Null /\ pretrained.encoder = "other")
          => /\ pc \in {"dispatch", "done"}
             /\ pc = "done" => error = "ValueError"
             /\ files = {}
             /\ scripted_rave = Null
             /\ ~checked
    /\ (pc = "done" /\ pretrained # Null /\ ~pretrained.loaded
            /\ pretrained.encoder # "other")
          => /\ warnings # <<>>
             /\ files = {<<args.NAME, ".ts">>}
             /\ checked
             /\ error \in {"none", "ValidationError"}

\* a run without a checkpoint that the unsupported encoder type ended
C8_Witness ==
    /\ pc = "done"
    /\ pretrained # Null
    /\ pretrained.encoder = "other"
    /\ ~pretrained.loaded
    /\ error = "ValueError"

-----------------------------------------------------------------------------
(* Properties of the calls on a constructed wrapper (CodecSpec) *)

\* a decode (alone or inside forward) that returned an output
Decoded == call # Null /\ call.op \in {"decode", "forward"} /\ call.error = "none"

\* the rows of W are orthonormal
Orthonormal(W) ==
    \A i \in 1..Len(W) : \A j \in 1..Len(W) :
        SumTo([k \in 1..Len(W) |-> W[i][k] * W[j][k]], Len(W)) = (IF i = j THEN 1 ELSE 0)

\* the index torch.clamp is documented to return for i, by cases
InRange(i, n) == IF i < 0 THEN 0 ELSE IF i > n - 1 THEN n - 1 ELSE i

\* C5: a stereo decode yields two channels that are bit-identical to each
\* other, each with the sample count of the mono decode of the same latent,
\* for both strategies, the variational one with D_kept < D_full included.
C5_StereoChannelsIdentical ==
    (Decoded /\ call.op = "decode" /\ net.stereo)
        => \A b \in 1..Len(call.y) :
              /\ Len(call.y[b]) = 2
              /\ call.y[b][1].samples = call.frames * net.hop
              /\ call.y[b][2].samples = call.frames * net.hop
              /\ call.y[b][1] = call.y[b][2]

\* C6: a discrete decode rejects no index: every index is clamped into
\* [0, n_codes-1] before the dequantization, an index of n_codes or more
\* decodes as n_codes-1 does, a negative one as 0 does, and an index in range
\* is passed through unchanged.
C6_IndicesClamped ==
    (call # Null /\ call.op = "decode" /\ net.class = "DiscreteScriptedRAVE")
        => /\ call.error = "none"
           /\ \A r \in 1..Len(call.clamped) : \A s \in 1..Len(call.clamped[r]) :
                 /\ call.clamped[r][s] \in 0..(net.quantizer.n_codes - 1)
                 /\ call.clamped[r][s] =
                        InRange(Duplicate(net, call.latent)[r][s], net.quantizer.n_codes)
           /\ \A r \in 1..Len(call.dequantized) :
                 call.dequantized[r] =
                    ResidualDequantize(net.quantizer,
                        [s \in 1..Len(call.latent[1]) |->
                            InRange(Duplicate(net, call.latent)[r][s],
                                    net.quantizer.n_codes)]).value

\* a discrete decode of an index equal to n_codes, and of a negative one
C6_Witness ==
    /\ call # Null
    /\ call.op = "decode"
    /\ net.class = "DiscreteScriptedRAVE"
    /\ Len(call.latent[1]) = 2
    /\ call.latent[1][1] = net.quantizer.n_codes
    /\ call.latent[1][2] = -1
    /\ call.error = "none"
    /\ call.clamped[1] = <<net.quantizer.n_codes - 1, 0>>

\* C9: with D_kept = D_full and an orthonormal projection, the variational
\* pre-processing of the post-processed latent is the reparametrized latent:
\* no channel is truncated and no noise channel is appended.
C9_RoundTrip ==
    (call # Null /\ call.op = "forward" /\ net.class = "VariationalScriptedRAVE"
        /\ net.latent_size = net.full_latent_size /\ Orthonormal(net.latent_pca))
        => /\ call.error = "none"
           /\ NoiseChannels(net) = 0
           /\ \A r \in 1..Len(call.latent) : Len(call.latent[r]) = net.full_latent_size
           /\ \A r \in 1..Len(call.pre) : call.pre[r] = call.raw[1].mean

\* a round trip of a non-zero latent through a projection that is not
\* symmetric, with a non-zero mean
C9_Witness ==
    /\ call # Null
    /\ call.op = "forward"
    /\ net.class = "VariationalScriptedRAVE"
    /\ net.latent_size = 4
    /\ net.full_latent_size = 4
    /\ net.latent_pca = Shift(4)
    /\ net.latent_mean = <<1, 2, 3, 4>>
    /\ call.raw[1].mean = <<0, 1, 2, 3>>
    /\ call.pre[1] = <<0, 1, 2, 3>>

\* C10: the artifact carries encodeParams = [1, 1, D_kept, ratio],
\* decodeParams = [D_kept, ratio, channels, 1] and forwardParams =
\* [1, 1, channels, 1], channels being 2 exactly when stereo is set;
\* decodeParams[2] is the number of channels decode produces, encodeParams[2]
\* is decodeParams[0], and a discrete D_kept is the number of quantizer stages
\* whatever the fidelity threshold.
C10_MetadataMatches ==
    /\ net.encode_params = <<1, 1, net.latent_size, pretrained.hop>>
    /\ net.decode_params =
          <<net.latent_size, pretrained.hop, IF args.STEREO THEN 2 ELSE 1, 1>>
    /\ net.forward_params = <<1, 1, IF args.STEREO THEN 2 ELSE 1, 1>>
    /\ net.encode_params[3] = net.decode_params[1]
    /\ pretrained.encoder = "discrete"
          => /\ net.latent_size = pretrained.num_quantizers
             /\ net.latent_size = net.quantizer.stages
    /\ Decoded => \A b \in 1..Len(call.y) : Len(call.y[b]) = net.decode_params[3]

\* a stereo decode of a discrete build made with a threshold other than the
\* default
C10_Witness ==
    /\ Decoded
    /\ pretrained.encoder = "discrete"
    /\ args.FIDELITY # DefaultFidelity
    /\ args.STEREO
    /\ net.decode_params[3] = 2
    /\ Len(call.y[1]) = 2

====
